---- MODULE Spec2Model ----
(***************************************************************************)
(* Model of the coffee-search form (Table component, getData) and of the   *)
(* benchmark chart tick-label formatters.                                  *)
(*                                                                         *)
(* Strings are sequences of one-character strings, so that formatting and  *)
(* parsing are computed and not assumed.  Numbers typed into the form are  *)
(* decimals with one fractional digit (the inputs' step is 0.1) or NaN     *)
(* (valueAsNumber of an empty input): [nan, tenths].                       *)
(***************************************************************************)
EXTENDS Integers, Sequences, FiniteSets, TLC

VARIABLES
    DEV,        \* import.meta.env.DEV, fixed by the build
    mounted,    \* the Table component has rendered and run its first effect
    fs,         \* the four useState filter values
    data,       \* useState<Data | undefined>
    table,      \* the rows of <tbody> as last rendered: rows of cells of text
    requests,   \* every getData call so far, in issue order, with its outcome
    settled,    \* how many of those promises have settled
    tick        \* the last call of a tick-label formatter, with its result

vars == <<DEV, mounted, fs, data, table, requests, settled, tick>>

-----------------------------------------------------------------------------
(* Bounds of the model. *)

\* getData calls in one run, the one made on mount included
MaxRequests == 2
\* tick indexes run from 0 to MaxIndex
MaxIndex == 30

-----------------------------------------------------------------------------
(* Text. *)

Digits == <<"0", "1", "2", "3", "4", "5", "6", "7", "8", "9">>

RECURSIVE NatStr(_)
\* decimal digits of a natural number, as Number.prototype.toString gives them
NatStr(n) ==
    IF n < 10 THEN <<Digits[n + 1]>>
    ELSE NatStr(n \div 10) \o <<Digits[(n % 10) + 1]>>

\* an integer as JavaScript prints it
IntStr(n) == IF n < 0 THEN <<"-">> \o NatStr(-n) ELSE NatStr(n)

\* a number of tenths as JavaScript prints it: 80 is "8", 85 is "8.5", -5 is "-0.5"
TenthsStr(t) ==
    LET a == IF t < 0 THEN -t ELSE t
        body == IF a % 10 = 0 THEN NatStr(a \div 10)
                ELSE NatStr(a \div 10) \o <<".">> \o <<Digits[(a % 10) + 1]>>
    IN  IF t < 0 THEN <<"-">> \o body ELSE body

\* a number of halves as JavaScript prints it: 10 is "5", 15 is "7.5"
HalvesStr(h) ==
    IF h % 2 = 0 THEN NatStr(h \div 2)
    ELSE NatStr(h \div 2) \o <<".", "5">>

NaNStr == <<"N", "a", "N">>

Num(t) == [nan |-> FALSE, tenths |-> t]
NaN == [nan |-> TRUE, tenths |-> 0]

\* `${v}` of a number
NumberToString(v) == IF v.nan THEN NaNStr ELSE TenthsStr(v.tenths)

RECURSIVE Join(_, _)
\* Array.prototype.join
Join(parts, sep) ==
    IF Len(parts) = 0 THEN <<>>
    ELSE IF Len(parts) = 1 THEN parts[1]
    ELSE parts[1] \o sep \o Join(Tail(parts), sep)

RECURSIVE Split(_, _)
\* the pieces of s between occurrences of the one-character separator c
Split(s, c) ==
    IF \A i \in 1..Len(s) : s[i] # c THEN <<s>>
    ELSE LET k == CHOOSE i \in 1..Len(s) :
                      s[i] = c /\ \A j \in 1..(i - 1) : s[j] # c
         IN  <<SubSeq(s, 1, k - 1)>> \o Split(SubSeq(s, k + 1, Len(s)), c)

-----------------------------------------------------------------------------
(* getData: the request URL. *)

\* the four keys of the object literal passed to getData, in its order
FieldNames == <<"aroma", "flavor", "acidity", "sweetness">>

KeyText(f) ==
    CASE f = "aroma" -> <<"a", "r", "o", "m", "a">>
      [] f = "flavor" -> <<"f", "l", "a", "v", "o", "r">>
      [] f = "acidity" -> <<"a", "c", "i", "d", "i", "t", "y">>
      [] f = "sweetness" -> <<"s", "w", "e", "e", "t", "n", "e", "s", "s">>

\* Object.entries(v): [key, value] pairs in insertion order
ObjectEntries(v) == [i \in 1..Len(FieldNames) |-> <<KeyText(FieldNames[i]), v[FieldNames[i]]>>]

\* ([k, v]) => `${k}=${v}`
EntryText(e) == e[1] \o <<"=">> \o NumberToString(e[2])

\* const URL = import.meta.env.DEV ? "http://localhost:4000" : ""
BaseURL(dev) == IF dev THEN <<"h", "t", "t", "p", ":", "/", "/", "l", "o", "c", "a", "l", "h", "o", "s", "t", ":", "4", "0", "0", "0">> ELSE <<>>

\* the parameters with Object.entries' order lost (keys sorted by name)
getDataSorted(dev, v) ==
    BaseURL(dev) \o <<"/", "s", "e", "a", "r", "c", "h", "?">>
        \o Join(<<EntryText(<<<<"a", "c", "i", "d", "i", "t", "y">>, v.acidity>>), EntryText(<<<<"a", "r", "o", "m", "a">>, v.aroma>>),
                  EntryText(<<<<"f", "l", "a", "v", "o", "r">>, v.flavor>>), EntryText(<<<<"s", "w", "e", "e", "t", "n", "e", "s", "s">>, v.sweetness>>)>>,
                <<"&">>)

\* the URL getData fetches: `${URL}/search?${params}`
getData(dev, v) ==
    LET entries == ObjectEntries(v)
        params == Join([i \in 1..Len(entries) |-> EntryText(entries[i])], <<"&">>)
    IN  BaseURL(dev) \o <<"/", "s", "e", "a", "r", "c", "h", "?">> \o params

-----------------------------------------------------------------------------
(* Values, response bodies and rendering. *)

Undefined == [defined |-> FALSE, rows |-> <<>>]
Defined(rows) == [defined |-> TRUE, rows |-> rows]

JNum(t) == [kind |-> "number", num |-> Num(t), str |-> <<>>]
JStr(s) == [kind |-> "string", num |-> NaN, str |-> s]
JNull == [kind |-> "null", num |-> NaN, str |-> <<>>]
JObj == [kind |-> "object", num |-> NaN, str |-> <<>>]

\* a cell that shows the JSON text of a string (quoted) instead of its coercion
TemplateStringQuoted(d) ==
    CASE d.kind = "number" -> NumberToString(d.num)
      [] d.kind = "string" -> <<"\"">> \o d.str \o <<"\"">>
      [] d.kind = "null" -> <<"n", "u", "l", "l">>
      [] d.kind = "object" -> <<"[", "o", "b", "j", "e", "c", "t", " ", "O", "b", "j", "e", "c", "t", "]">>

\* `${d}` of a JSON value
TemplateString(d) ==
    CASE d.kind = "number" -> NumberToString(d.num)
      [] d.kind = "string" -> d.str
      [] d.kind = "null" -> <<"n", "u", "l", "l">>
      [] d.kind = "object" -> <<"[", "o", "b", "j", "e", "c", "t", " ", "O", "b", "j", "e", "c", "t", "]">>

\* Row: one <td> per element of the row, in order
Row(row) == [j \in 1..Len(row) |-> TemplateString(row[j])]

\* <tbody>: (data ?? []).map(row => <Row row={row} />)
Tbody(d) ==
    LET rows == IF d.defined THEN d.rows ELSE <<>>
    IN  [i \in 1..Len(rows) |-> Row(rows[i])]

\* the body [[1,"a"],[2,"b"]]
BodyAB == <<<<JNum(10), JStr(<<"a">>)>>, <<JNum(20), JStr(<<"b">>)>>>>
\* the body [["x",null,8.5,{}],[]]
BodyRagged == <<<<JStr(<<"x">>), JNull, JNum(85), JObj>>, <<>>>>
\* the body []
BodyEmpty == <<>>

JsonBodies == {BodyAB, BodyRagged, BodyEmpty}

\* what a response carries: a JSON text (by the value it denotes) or text that
\* is no JSON
Json(rows) == [json |-> TRUE, rows |-> rows]
Malformed == [json |-> FALSE, rows |-> <<>>]
ResponseBodies == {Json(b) : b \in JsonBodies} \cup {Malformed}

\* HTTP status codes the server answers with
StatusCodes == {200, 404}
Is2xx(status) == status >= 200 /\ status <= 299

\* the values typed into a field
FieldValues == {Num(80), Num(85), NaN}

-----------------------------------------------------------------------------
(* The Table component. *)

\* one getData call: the argument it was given, the URL it fetches, the state
\* of its promise, and, once settled, what arrived: the status (0: none), the
\* body, the number of getData calls made by then (epoch) and its place among
\* the settled promises (order)
NewRequest(dev, v) ==
    [args |-> v, url |-> getData(dev, v), st |-> "pending",
     status |-> 0, body |-> Malformed, epoch |-> 0, order |-> 0]

Pending(i) == requests[i].st = "pending"
\* issued and not resolved: waiting, or waiting for ever
InFlight(i) == requests[i].st \in {"pending", "hung"}

\* the dependency list without its last entry
DepsChangedButSweetness(old, new) ==
    \E i \in 1..3 : old[FieldNames[i]] # new[FieldNames[i]]

\* useEffect's dependency list [aroma, flavor, acidity, sweetness]: the effect
\* runs again when one of them differs from the last render's
DepsChanged(old, new) ==
    \E i \in 1..Len(FieldNames) : old[FieldNames[i]] # new[FieldNames[i]]

\* a callback that drops the response of any but the newest request
ThenSetDataNewestOnly(cur, i, rows) ==
    IF i = Len(requests) THEN Defined(rows) ELSE cur

\* a callback that appends the response to the rows already shown
ThenSetDataAppend(cur, i, rows) == Defined(cur.rows \o rows)

\* .then((data) => setData(data)): the state after request i's body arrived
ThenSetData(cur, i, rows) == Defined(rows)

\* an effect that keeps the rows of the previous search while loading
EffectDataKept(cur) == cur

\* setData(undefined), the first statement of the effect
EffectData(cur) == Undefined

\* the effect: clear the rows, call getData with the values of this render
Effect(v) ==
    /\ data' = EffectData(data)
    /\ requests' = Append(requests, NewRequest(DEV, v))

\* the first render: the effect runs once with the default values
Mount ==
    /\ ~mounted
    /\ mounted' = TRUE
    /\ Effect(fs)
    /\ table' = Tbody(data')
    /\ UNCHANGED <<DEV, fs, settled, tick>>

\* onChange of one Input: update(el.target.valueAsNumber), then the render and
\* the effect when a dependency changed
Edit(f, v) ==
    /\ mounted
    /\ Len(requests) < MaxRequests
    /\ fs' = [fs EXCEPT ![f] = v]
    /\ IF DepsChanged(fs, fs')
       THEN Effect(fs')
       ELSE UNCHANGED <<data, requests>>
    /\ table' = Tbody(data')
    /\ UNCHANGED <<DEV, mounted, settled, tick>>

Settle(i, st, status, body) ==
    /\ requests' = [requests EXCEPT ![i] =
                       [@ EXCEPT !.st = st, !.status = status, !.body = body,
                                 !.epoch = Len(requests), !.order = settled + 1]]
    /\ settled' = settled + 1

\* fetch rejects (the network failed): nothing catches it
NetworkFailure(i) ==
    /\ Pending(i)
    /\ Settle(i, "rejected", 0, Malformed)
    /\ UNCHANGED <<DEV, mounted, fs, data, table, tick>>

\* fetch resolves with a response of any status; response.json() rejects on a
\* body that is no JSON, else its value goes to setData
Respond(i, status, body) ==
    /\ Pending(i)
    /\ IF body.json
       THEN /\ Settle(i, "fulfilled", status, body)
            /\ data' = ThenSetData(data, i, body.rows)
       ELSE /\ Settle(i, "rejected", status, body)
            /\ data' = data
    /\ table' = Tbody(data')
    /\ UNCHANGED <<DEV, mounted, fs, tick>>

\* the request will never get an answer; fetch sets no timeout
Hang(i) ==
    /\ Pending(i)
    /\ requests' = [requests EXCEPT ![i] = [@ EXCEPT !.st = "hung"]]
    /\ UNCHANGED <<DEV, mounted, fs, data, table, settled, tick>>

DefaultValue == Num(80)

NoCall == [fn |-> "none", factor |-> 0, value |-> [kind |-> "number", n |-> 0, s |-> <<>>],
           index |-> 0, result |-> Undefined]

Init ==
    /\ DEV \in BOOLEAN
    /\ mounted = FALSE
    /\ fs = [aroma |-> DefaultValue, flavor |-> DefaultValue,
             acidity |-> DefaultValue, sweetness |-> DefaultValue]
    /\ data = Undefined
    /\ table = Tbody(Undefined)
    /\ requests = <<>>
    /\ settled = 0
    /\ tick = NoCall

EditAny == \E f \in DOMAIN fs : \E v \in FieldValues : Edit(f, v)
NetworkFailureAny == \E i \in 1..Len(requests) : NetworkFailure(i)
RespondAny ==
    \E i \in 1..Len(requests) : \E status \in StatusCodes :
        \E body \in ResponseBodies : Respond(i, status, body)
HangAny == \E i \in 1..Len(requests) : Hang(i)

Next == Mount \/ EditAny \/ NetworkFailureAny \/ RespondAny \/ HangAny

Spec == Init /\ [][Next]_vars

-----------------------------------------------------------------------------
(* Responses in issue order, all successful. *)

\* the oldest pending request gets a 2xx response with a JSON body
RespondInOrder ==
    \E i \in 1..Len(requests) : \E body \in JsonBodies :
        /\ \A j \in 1..(i - 1) : ~Pending(j)
        /\ Respond(i, 200, Json(body))

NextFifo == Mount \/ EditAny \/ RespondInOrder

\* the effect of the first render runs, and the server answers every request
SpecFifo ==
    Init /\ [][NextFifo]_vars /\ WF_vars(Mount) /\ WF_vars(RespondInOrder)

-----------------------------------------------------------------------------
(* The tick-label formatters of the benchmark charts. *)

NoLabel == Undefined
Label(s) == [defined |-> TRUE, rows |-> s]

\* JavaScript's %: the result has the sign of the dividend
JsRem(a, b) == IF a >= 0 THEN a % b ELSE -((-a) % b)

IsDigit(c) == \E d \in 1..10 : Digits[d] = c
DigitValue(c) == (CHOOSE d \in 1..10 : Digits[d] = c) - 1

RECURSIVE ParseNat(_)
\* the number a nonempty sequence of digits denotes
ParseNat(s) ==
    IF Len(s) = 1 THEN DigitValue(s[1])
    ELSE 10 * ParseNat(SubSeq(s, 1, Len(s) - 1)) + DigitValue(s[Len(s)])

AllDigits(s) == Len(s) > 0 /\ \A i \in 1..Len(s) : IsDigit(s[i])

TickNumber(n) == [kind |-> "number", n |-> n, s |-> <<>>]
TickString(s) == [kind |-> "string", n |-> 0, s |-> s]

\* +value: [nan, n]; "" is 0, an integer literal is its value, other text is NaN
UnaryPlus(value) ==
    IF value.kind = "number" THEN [nan |-> FALSE, n |-> value.n]
    ELSE IF value.s = <<>> THEN [nan |-> FALSE, n |-> 0]
    ELSE IF AllDigits(value.s) THEN [nan |-> FALSE, n |-> ParseNat(value.s)]
    ELSE IF value.s[1] = "-" /\ AllDigits(Tail(value.s))
         THEN [nan |-> FALSE, n |-> -ParseNat(Tail(value.s))]
    ELSE [nan |-> TRUE, n |-> 0]

\* a transformer that labels every fifth tick
transformTimeTicksEveryFifth(factor, value, index) ==
    IF JsRem(index, 5) = 0
    THEN Label(<<"~">> \o HalvesStr(index * factor) \o <<"s">>)
    ELSE NoLabel

\* transformTimeTicks(factor)(_value, index); factor counts halves (0.5 is 1)
transformTimeTicks(factor, value, index) ==
    IF JsRem(index, 10) = 0
    THEN Label(<<"~">> \o HalvesStr(index * factor) \o <<"s">>)
    ELSE NoLabel

\* a formatter that tests the index instead of the value
transformMillisecondTicksByIndex(value, index) ==
    LET v == UnaryPlus(value)
    IN  IF ~v.nan /\ JsRem(index, 1000) = 0
        THEN Label(IntStr(v.n \div 1000) \o <<"s">>)
        ELSE NoLabel

\* transformMillisecondTicks(value, _index)
transformMillisecondTicks(value, index) ==
    LET v == UnaryPlus(value)
    IN  IF ~v.nan /\ JsRem(v.n, 1000) = 0
        THEN Label(IntStr(v.n \div 1000) \o <<"s">>)
        ELSE NoLabel

\* factor's default, 0.5, in halves
DefaultFactor == 1
\* the factors a chart may pass: 0.5, 1, 1.5
Factors == {DefaultFactor, 2, 3}

TickValues ==
    {TickNumber(n) : n \in {0, 500, 999, 1000, 2000, 2500, 3000, -1000, -1500}}
        \cup {TickString(<<"2", "0", "0", "0">>), TickString(<<"2", "5", "0", "0">>),
              TickString(<<>>), TickString(<<"a", "b", "c">>),
              TickString(<<"-", "3", "0", "0", "0">>)}

Indexes == 0..MaxIndex

CallTimeTicks(factor, value, index) ==
    /\ tick' = [fn |-> "transformTimeTicks", factor |-> factor, value |-> value,
                index |-> index, result |-> transformTimeTicks(factor, value, index)]
    /\ UNCHANGED <<DEV, mounted, fs, data, table, requests, settled>>

CallMillisecondTicks(value, index) ==
    /\ tick' = [fn |-> "transformMillisecondTicks", factor |-> 0, value |-> value,
                index |-> index, result |-> transformMillisecondTicks(value, index)]
    /\ UNCHANGED <<DEV, mounted, fs, data, table, requests, settled>>

CallTimeTicksAny ==
    \E factor \in Factors : \E value \in TickValues : \E index \in Indexes :
        CallTimeTicks(factor, value, index)
CallMillisecondTicksAny ==
    \E value \in TickValues : \E index \in Indexes : CallMillisecondTicks(value, index)

NextTicks == CallTimeTicksAny \/ CallMillisecondTicksAny

SpecTicks == Init /\ [][NextTicks]_vars

-----------------------------------------------------------------------------
(* Reading a URL back, for the properties. *)

\* the number a printed decimal with at most one fractional digit denotes
ParseNumber(s) ==
    IF s = NaNStr THEN NaN
    ELSE LET p == Split(s, ".")
         IN  IF Len(p) = 1 THEN Num(10 * ParseNat(p[1]))
             ELSE Num(10 * ParseNat(p[1]) + ParseNat(p[2]))

\* the number of halves a printed decimal denotes
ParseHalves(s) ==
    LET p == Split(s, ".")
    IN  IF Len(p) = 1 THEN 2 * ParseNat(p[1]) ELSE 2 * ParseNat(p[1]) + 1

\* the part of a URL before "?"
UrlPath(url) == Split(url, "?")[1]

\* the URL's query says exactly: aroma, flavor, acidity, sweetness of v, in order
QueryIs(url, v) ==
    LET parts == Split(url, "?")
        params == Split(parts[2], "&")
    IN  /\ Len(parts) = 2
        /\ Len(params) = 4
        /\ \A k \in 1..4 :
              LET kv == Split(params[k], "=")
              IN  /\ Len(kv) = 2
                  /\ kv[1] = KeyText(FieldNames[k])
                  /\ ParseNumber(kv[2]) = v[FieldNames[k]]

Fulfilled2xx(i) ==
    requests[i].st = "fulfilled" /\ Is2xx(requests[i].status)
NoneInFlight == \A i \in 1..Len(requests) : ~InFlight(i)
\* a JSON body was handed to setData after request i was issued
FilledSince(i) ==
    \E j \in 1..Len(requests) : requests[j].st = "fulfilled" /\ requests[j].epoch >= i

-----------------------------------------------------------------------------
(* C1.  A step that changes any of the four filter values issues exactly   *)
(* one new request (the earlier ones are untouched), and the query of its  *)
(* URL carries the four values as they are after the change.               *)
C1_OneRequestPerChange ==
    [][fs' # fs =>
          /\ Len(requests') = Len(requests) + 1
          /\ SubSeq(requests', 1, Len(requests)) = requests
          /\ requests'[Len(requests')].st = "pending"
          /\ QueryIs(requests'[Len(requests')].url, fs')]_vars

\* a change of the last field, sweetness, to 8.5 has issued its request
C1_Witness ==
    /\ Len(requests) >= 2
    /\ fs.sweetness = Num(85)
    /\ QueryIs(requests[Len(requests)].url, fs)
    /\ ~QueryIs(requests[1].url, fs)

(* C2 as stated.  Whenever some request is in flight, the table has no     *)
(* rows.                                                                   *)
C2_EmptyWhileInFlight ==
    (\E i \in 1..Len(requests) : InFlight(i)) => table = <<>>

(* C3.  Once every issued request has resolved successfully, the data and  *)
(* the table are those of the response that resolved last, whatever the    *)
(* order of issue.                                                         *)
C3_LastResolvedWins ==
    (Len(requests) > 0 /\ \A i \in 1..Len(requests) : Fulfilled2xx(i)) =>
        \E l \in 1..Len(requests) :
            /\ requests[l].order = settled
            /\ \A j \in 1..Len(requests) : requests[j].order <= requests[l].order
            /\ data = Defined(requests[l].body.rows)
            /\ Len(table) = Len(requests[l].body.rows)

\* nothing is in flight and the table shows the answer to an older FilterSet,
\* which resolved after the answer to the current one
C3_Witness ==
    /\ Len(requests) >= 2
    /\ \A i \in 1..Len(requests) : Fulfilled2xx(i)
    /\ QueryIs(requests[Len(requests)].url, fs)
    /\ ~QueryIs(requests[1].url, fs)
    /\ requests[1].order > requests[Len(requests)].order
    /\ data = Defined(requests[1].body.rows)
    /\ data # Defined(requests[Len(requests)].body.rows)

(* C4 as stated.  A step in which a request ends in a network failure, a   *)
(* non-2xx response or a malformed body changes neither the rows shown nor *)
(* the FilterSet, and issues no request.                                   *)
C4_FailureLeavesState ==
    [][\A i \in 1..Len(requests) :
          (/\ Pending(i)
           /\ requests'[i].st \in {"fulfilled", "rejected"}
           /\ \/ requests'[i].status = 0
              \/ ~Is2xx(requests'[i].status)
              \/ ~requests'[i].body.json)
          => /\ table' = table
             /\ fs' = fs
             /\ Len(requests') = Len(requests)]_vars

C6_TableOfData ==
    /\ Len(table) = Len(data.rows)
    /\ \A i \in 1..Len(table) : Len(table[i]) = Len(data.rows[i])
    /\ \A i \in 1..Len(table) : \A j \in 1..Len(table[i]) :
          /\ data.rows[i][j].kind = "string" => table[i][j] = data.rows[i][j].str
          /\ data.rows[i][j].kind = "number" =>
                ParseNumber(table[i][j]) = data.rows[i][j].num
    /\ data = Defined(BodyAB) => table = <<<<<<"1">>, <<"a">>>>, <<<<"2">>, <<"b">>>>>>
    /\ data = Defined(BodyRagged) =>
          table = <<<<<<"x">>, <<"n", "u", "l", "l">>, <<"8", ".", "5">>, <<"[", "o", "b", "j", "e", "c", "t", " ", "O", "b", "j", "e", "c", "t", "]">>>>, <<>>>>
    /\ (~data.defined \/ data.rows = <<>>) => table = <<>>

(* C6.  The step in which a request succeeds makes data the response body, *)
(* whole; and the table always has one row per element of data, one cell   *)
(* per element of the row, in order, each the string of its value:         *)
(* [[1,"a"],[2,"b"]] shows as rows "1","a" and "2","b", and an empty or    *)
(* absent result set as no rows.                                           *)
C6_SuccessReplaces ==
    [](C6_TableOfData)
    /\ [][\A i \in 1..Len(requests) :
             (Pending(i) /\ requests'[i].st = "fulfilled" /\ Is2xx(requests'[i].status))
             => data' = Defined(requests'[i].body.rows)]_vars

\* [[1,"a"],[2,"b"]] arrived after a different body had been shown
C6_Witness ==
    /\ data = Defined(BodyAB)
    /\ table = <<<<<<"1">>, <<"a">>>>, <<<<"2">>, <<"b">>>>>>
    /\ \E i, j \in 1..Len(requests) :
          /\ Fulfilled2xx(i) /\ Fulfilled2xx(j)
          /\ requests[i].order < requests[j].order
          /\ requests[i].body.rows = BodyRagged
          /\ requests[j].body.rows = BodyAB

(* C7.  Whenever a request is issued, its URL is <base>/search? followed   *)
(* by aroma, flavor, acidity, sweetness, once each and in that order, each *)
(* with the value of the field getData was called with; <base> is empty in *)
(* a packaged build and http://localhost:4000 in a development build.      *)
C7_RequestUrl ==
    [][Len(requests') > Len(requests) =>
          LET r == requests'[Len(requests')]
          IN  /\ UrlPath(r.url) = (IF DEV THEN <<"h", "t", "t", "p", ":", "/", "/", "l", "o", "c", "a", "l", "h", "o", "s", "t", ":", "4", "0", "0", "0">> ELSE <<>>) \o <<"/", "s", "e", "a", "r", "c", "h">>
              /\ QueryIs(r.url, r.args)
              /\ r.args = fs'
              /\ (~DEV /\ \A k \in 1..4 : r.args[FieldNames[k]] = Num(80)) =>
                    r.url = <<"/", "s", "e", "a", "r", "c", "h", "?", "a", "r", "o", "m", "a", "=", "8", "&", "f", "l", "a", "v", "o", "r", "=", "8", "&", "a", "c", "i", "d", "i", "t", "y", "=", "8", "&", "s", "w", "e", "e", "t", "n", "e", "s", "s", "=", "8">>]_vars

\* a development build has asked for flavor 8.5
C7_Witness ==
    /\ DEV
    /\ \E i \in 1..Len(requests) :
          /\ requests[i].args.flavor = Num(85)
          /\ requests[i].url = <<"h", "t", "t", "p", ":", "/", "/", "l", "o", "c", "a", "l", "h", "o", "s", "t", ":", "4", "0", "0", "0", "/", "s", "e", "a", "r", "c", "h", "?", "a", "r", "o", "m", "a", "=", "8", "&", "f", "l", "a", "v", "o", "r", "=", "8", ".", "5", "&", "a", "c", "i", "d", "i", "t", "y", "=", "8", "&", "s", "w", "e", "e", "t", "n", "e", "s", "s", "=", "8">>

(* C8.  transformTimeTicks(factor) gives a label exactly for the indexes   *)
(* that are multiples of 10; the label is "~", index*factor, "s"; the tick *)
(* value plays no part.  Factor 0.5: index 10 gives "~5s", index 7 nothing.*)
C8_TimeTicks ==
    tick.fn = "transformTimeTicks" =>
        LET label == tick.result.rows
        IN  /\ tick.result.defined <=> (tick.index % 10 = 0)
            /\ tick.result.defined =>
                  /\ Len(label) >= 3
                  /\ label[1] = "~"
                  /\ label[Len(label)] = "s"
                  /\ ParseHalves(SubSeq(label, 2, Len(label) - 1))
                        = tick.index * tick.factor
            /\ (tick.factor = 1 /\ tick.index = 10) => tick.result = Label(<<"~", "5", "s">>)
            /\ tick.index = 7 => tick.result = NoLabel

\* index 10 with the default factor and a tick value that is no number: "~5s"
C8_Witness ==
    /\ tick.fn = "transformTimeTicks"
    /\ tick.factor = DefaultFactor
    /\ tick.index = 10
    /\ tick.value = TickString(<<"a", "b", "c">>)
    /\ tick.result = Label(<<"~", "5", "s">>)

(* C9.  transformMillisecondTicks gives a label exactly when the value, as *)
(* a number, is a multiple of 1000; the label is value/1000, "s"; the      *)
(* index plays no part.  2000 gives "2s", 2500 nothing.                    *)
C9_MillisecondTicks ==
    tick.fn = "transformMillisecondTicks" =>
        LET label == tick.result.rows
            v == UnaryPlus(tick.value)
            digits == SubSeq(label, 1, Len(label) - 1)
            quotient == IF digits[1] = "-" THEN -ParseNat(Tail(digits))
                        ELSE ParseNat(digits)
        IN  /\ tick.result.defined <=> (~v.nan /\ v.n % 1000 = 0)
            /\ tick.result.defined =>
                  /\ Len(label) >= 2
                  /\ label[Len(label)] = "s"
                  /\ 1000 * quotient = v.n
            /\ tick.value \in {TickNumber(2000), TickString(<<"2", "0", "0", "0">>)} =>
                  tick.result = Label(<<"2", "s">>)
            /\ tick.value \in {TickNumber(2500), TickString(<<"2", "5", "0", "0">>)} =>
                  tick.result = NoLabel

\* value 2000 at an index that is no multiple of 1000: "2s"
C9_Witness ==
    /\ tick.fn = "transformMillisecondTicks"
    /\ tick.value = TickNumber(2000)
    /\ tick.index = 7
    /\ tick.result = Label(<<"2", "s">>)

(* C10.  When every request succeeds and the responses arrive in issue     *)
(* order: whenever nothing is in flight, data is the response to the last  *)
(* request, which was issued for the current FilterSet (the request of the *)
(* first render, for 8, 8, 8, 8, included); and once no further edit is    *)
(* made, that state is reached and stays.                                  *)
C10_Current ==
    /\ mounted
    /\ NoneInFlight
    /\ Len(requests) > 0
    /\ Fulfilled2xx(Len(requests))
    /\ requests[Len(requests)].args = fs
    /\ QueryIs(requests[Len(requests)].url, fs)
    /\ data = Defined(requests[Len(requests)].body.rows)
    /\ table = Tbody(data)

C10_InOrderShowsCurrent ==
    /\ []((mounted /\ NoneInFlight) => C10_Current)
    /\ (<>[][fs' = fs]_vars) => <>[]C10_Current

\* two answers arrived in order; the table shows the second, for the edited values
C10_Witness ==
    /\ C10_Current
    /\ Len(requests) >= 2
    /\ ~QueryIs(requests[1].url, fs)
    /\ requests[1].order < requests[Len(requests)].order
    /\ requests[1].body # requests[Len(requests)].body
    /\ Len(table) > 0

====
